---- MODULE Spec2Model ----
(***************************************************************************)
(* The position lifecycle, risk sizing and trailing stop of HybridSMCBot   *)
(* (src/mt5_trend_bot.py), with the MetaTrader5 terminal as the venue.     *)
(*                                                                         *)
(* Units: time in whole seconds; prices in pips (0.0001); volumes in       *)
(* hundredths of a lot; risk in thousandths of a percent; money in units   *)
(* of the account currency.                                                *)
(***************************************************************************)
EXTENDS Integers, Sequences, FiniteSets, TLC

(* Python's None: for an object, for a string, for a number *)
None == [none |-> TRUE]
NoneStr == "None"
NoneInt == 0 - 1

Min(a, b) == IF a <= b THEN a ELSE b
Max(a, b) == IF a >= b THEN a ELSE b

(* Python's round(n/d) for n >= 0, d > 0: to the nearest integer, ties to even. *)
RoundHalfEven(n, d) ==
  LET q == n \div d
      r == n % d
  IN  IF 2 * r < d THEN q
      ELSE IF 2 * r > d THEN q + 1
      ELSE IF q % 2 = 0 THEN q ELSE q + 1

(* ------------------------------------------------------------------ *)
(* Configuration: BotConfig.default_config and HybridSMCBot.__init__   *)
(* ------------------------------------------------------------------ *)

(* the symbols one can select; self.symbols is part of the state *)
AllSymbols == {"EURUSD", "XAUUSD"}

metals == {"XAUUSD", "XAGUSD"}
crypto == {"BTCUSD", "ETHUSD"}
currencies == {"EURUSD", "GBPUSD", "USDJPY", "AUDUSD", "USDCAD", "NZDUSD", "EURGBP", "GBPJPY"}

MAGIC == 234000
daily_loss_limit == 4
trailing_enabled == TRUE
trailing_activation == 20
trailing_distance == 15
currency_risk == 1000
metal_risk == 500
max_risk == 2000
confidence_scaling == TRUE
min_confidence == 5
(* risk.max_spread_multiplier = 0.3, in tenths *)
max_spread_multiplier == 3
(* run() prints the status in every cycle whose number is a multiple of this *)
StatusEvery == 5
(* datetime.timedelta keeps days apart from seconds: .seconds is in 0..86399 *)
SecondsPerDay == 86400
(* the values of general.cooldown_seconds the model is run with: none, and the default *)
CooldownChoices == {0, 300}
(* the lot returned when no size can be computed, 0.01 lot *)
FallbackLot == 1

(* ------------------------------------------------------------------ *)
(* Bounds of the model                                                 *)
(* ------------------------------------------------------------------ *)

(* the loop reads the clock at a midnight, ShortStep seconds later (a check interval shorter
   than the default cooldown), then at the next midnight, up to day MaxDays *)
ShortStep == 200
MaxDays == 1
(* the length the trade history may reach *)
MaxTrades == 2
(* the balances the account goes through *)
InitialBalance == 1000
Balances == {InitialBalance - 50, InitialBalance, InitialBalance + 250, InitialBalance + 300}

(* ------------------------------------------------------------------ *)
(* The venue's description of a symbol: mt5.symbol_info                *)
(* ------------------------------------------------------------------ *)

(* bid is the quote at the time of the call; the spread is one pip, one point when a point
   is wider than a pip *)
SymbolInfo(s, bid) ==
  IF s \in metals
  THEN [digits |-> 2, tick_value |-> 1, volume_min |-> 1, volume_max |-> 10000, volume_step |-> 1,
        bid |-> bid, ask |-> bid + 100]
  ELSE [digits |-> 5, tick_value |-> 1, volume_min |-> 1, volume_max |-> 10000, volume_step |-> 1,
        bid |-> bid, ask |-> bid + 1]

(* mt5.symbol_info_tick at the same moment *)
SymbolInfoTick(s, bid) == [bid |-> bid, ask |-> SymbolInfo(s, bid).ask]

(* get_pip_info: pip is 0.0001 for every symbol without JPY in its name, one price unit here *)
Pip(s) == 1

get_pip_info(s, info) == [pip |-> Pip(s), digits |-> IF info = None THEN 5 ELSE info.digits]

Pow10(k) == IF k = 0 THEN 1 ELSE IF k = 1 THEN 10 ELSE IF k = 2 THEN 100 ELSE IF k = 3 THEN 1000 ELSE 10000

(* round(price, digits) on a price in pips: with 4 or more digits a whole number of pips is
   unchanged; with fewer, the price moves to the nearest multiple of 10^(4-digits) pips *)
RoundPrice(x, digits) ==
  IF digits >= 4 THEN x
  ELSE RoundHalfEven(x, Pow10(4 - digits)) * Pow10(4 - digits)

get_symbol_type(s) ==
  IF s \in metals THEN "metal"
  ELSE IF s \in currencies THEN "currency"
  ELSE IF s \in crypto THEN "crypto"
  ELSE "unknown"

(* ------------------------------------------------------------------ *)
(* Risk and position sizing                                            *)
(* ------------------------------------------------------------------ *)

(* settings: risk_percent as the terminal prompt returns it (1.0 when left empty), and the
   risk.confidence_scaling flag *)
DefaultRiskCfg == [terminal_risk |-> 1000, confidence_scaling |-> confidence_scaling]

(* in thousandths of a percent; confidence / 10 is capped at 1.0 *)
calculate_risk_percent(s, confidence, cfg) ==
  LET sym_type == get_symbol_type(s)
      class_risk == IF sym_type \in {"metal", "crypto"} THEN metal_risk ELSE currency_risk
      base_risk == IF cfg.terminal_risk # NoneInt THEN cfg.terminal_risk ELSE class_risk
  IN  IF cfg.confidence_scaling
      THEN Min((base_risk * Min(10, confidence)) \div 10, max_risk)
      ELSE Min(base_risk, max_risk)

(* tick_value * points_per_pip *)
get_tick_value_per_pip(s, info) ==
  IF info = None THEN 1
  ELSE LET points_per_pip ==
             IF s \in {"USDJPY", "GBPJPY"} /\ info.digits \in {2, 3}
             THEN Pow10(info.digits - 2)
             ELSE IF info.digits >= 5 THEN Pow10(info.digits - 4)
             ELSE 10
       IN  info.tick_value * points_per_pip

(* The volume in hundredths of a lot. calculated_lots is the fraction n / d of a hundredth
   of a lot: risk_amount = balance * risk_percent / 100000 and one lot is 100 hundredths. *)
calculate_position_size(s, info, balance, confidence, stop_loss_pips, cfg) ==
  LET risk_percent == calculate_risk_percent(s, confidence, cfg)
  IN  IF info = None THEN FallbackLot
      ELSE LET risk_per_lot == get_tick_value_per_pip(s, info) * stop_loss_pips
           IN  IF risk_per_lot <= 0 THEN FallbackLot
               ELSE LET n == balance * risk_percent
                        d == 1000 * risk_per_lot
                        min_lot == info.volume_min
                        max_lot == info.volume_max
                        lot_step == info.volume_step
                        above == n \div d > max_lot \/ (n \div d = max_lot /\ n % d > 0)
                        below == n \div d < min_lot
                        \* max(min_lot, min(max_lot, calculated_lots)), as cn / cd
                        cn == IF above THEN Max(min_lot, max_lot)
                              ELSE IF below THEN min_lot ELSE n
                        cd == IF above \/ below THEN 1 ELSE d
                    IN  RoundHalfEven(cn, cd * lot_step) * lot_step

(* ------------------------------------------------------------------ *)
(* Venue queries and the gates                                         *)
(* ------------------------------------------------------------------ *)

(* check_position as it would be if it never found the bot's position *)
check_position_none(pos, s) == None

(* pos: the venue's open positions, a sequence per symbol; the first one tagged MAGIC *)
check_position(pos, s) ==
  LET mine == SelectSeq(pos[s], LAMBDA p : p.magic = MAGIC)
  IN  IF mine = <<>> THEN None ELSE mine[1]

(* (datetime.now() - last_trade).seconds: the seconds field of the normalised timedelta *)
TimedeltaSeconds(delta) == delta % SecondsPerDay

(* check_cooldown as it would be without the test of last_trade_time *)
check_cooldown_off(sd, s, t, cooldown) == TRUE

check_cooldown(sd, s, t, cooldown) ==
  LET last_trade == sd[s].last_trade_time
  IN  ~(last_trade # NoneInt /\ TimedeltaSeconds(t - last_trade) < cooldown)

(* datetime.fromisoformat(timestamp).date(), as a day number *)
DateOf(t) == t \div SecondsPerDay

RECURSIVE SumProfit(_)
SumProfit(tr) == IF tr = <<>> THEN 0 ELSE tr[1].profit + SumProfit(Tail(tr))

TodayPL(tr, t) == SumProfit(SelectSeq(tr, LAMBDA x : DateOf(x.timestamp) = DateOf(t)))

(* loss_pct < -daily_loss_limit with loss_pct = today_pl / start_of_day_balance * 100,
   and loss_pct = 0 when the estimated start-of-day balance is not positive *)
LossExceeds(today_pl, bal) ==
  LET start_of_day_balance == bal - today_pl
  IN  start_of_day_balance > 0 /\ today_pl * 100 < (0 - daily_loss_limit) * start_of_day_balance

(* account: None when mt5.account_info() gives nothing; TRUE means entries are allowed *)
check_daily_loss_limit(tr, t, account) ==
  IF tr = <<>> THEN TRUE
  ELSE IF account = None THEN TRUE
  ELSE ~LossExceeds(TodayPL(tr, t), account.balance)

(* ------------------------------------------------------------------ *)
(* Trailing stop                                                       *)
(* ------------------------------------------------------------------ *)

Abs(x) == IF x < 0 THEN 0 - x ELSE x

(* update_trailing_stop as it would be without the activation threshold *)
update_trailing_stop_no_activation(s, position, info, tick) ==
  IF ~trailing_enabled \/ info = None \/ tick = None THEN NoneInt
  ELSE LET pip == get_pip_info(s, info).pip
           curr_price == IF position.type = "buy" THEN tick.bid ELSE tick.ask
       IN  IF position.type = "buy"
           THEN LET new_sl == curr_price - trailing_distance * pip
                IN  IF position.sl # NoneInt /\ Abs(new_sl - position.sl) < pip THEN NoneInt
                    ELSE IF position.sl = NoneInt \/ new_sl > position.sl
                         THEN new_sl ELSE NoneInt
           ELSE LET new_sl == curr_price + trailing_distance * pip
                IN  IF position.sl # NoneInt /\ Abs(new_sl - position.sl) < pip THEN NoneInt
                    ELSE IF position.sl = NoneInt \/ new_sl < position.sl
                         THEN new_sl ELSE NoneInt

(* update_trailing_stop as it would be without the comparison of new_sl with position.sl *)
update_trailing_stop_loose(s, position, info, tick) ==
  IF ~trailing_enabled \/ info = None \/ tick = None THEN NoneInt
  ELSE LET pip == get_pip_info(s, info).pip
           curr_price == IF position.type = "buy" THEN tick.bid ELSE tick.ask
       IN  IF position.type = "buy"
           THEN LET new_sl == curr_price - trailing_distance * pip
                IN  IF position.sl # NoneInt /\ Abs(new_sl - position.sl) < pip THEN NoneInt
                    ELSE IF curr_price - position.price_open >= trailing_activation * pip
                         THEN new_sl ELSE NoneInt
           ELSE LET new_sl == curr_price + trailing_distance * pip
                IN  IF position.sl # NoneInt /\ Abs(new_sl - position.sl) < pip THEN NoneInt
                    ELSE IF position.price_open - curr_price >= trailing_activation * pip
                         THEN new_sl ELSE NoneInt

(* The stop update_trailing_stop passes to modify_sl, NoneInt when it calls none.
   profit_pips >= activation is compared without the division by pip. *)
update_trailing_stop(s, position, info, tick) ==
  IF ~trailing_enabled \/ info = None \/ tick = None THEN NoneInt
  ELSE LET pip == get_pip_info(s, info).pip
           curr_price == IF position.type = "buy" THEN tick.bid ELSE tick.ask
       IN  IF position.type = "buy"
           THEN LET new_sl == curr_price - trailing_distance * pip
                IN  IF position.sl # NoneInt /\ Abs(new_sl - position.sl) < pip THEN NoneInt
                    ELSE IF /\ curr_price - position.price_open >= trailing_activation * pip
                            /\ (position.sl = NoneInt \/ new_sl > position.sl)
                         THEN new_sl ELSE NoneInt
           ELSE LET new_sl == curr_price + trailing_distance * pip
                IN  IF position.sl # NoneInt /\ Abs(new_sl - position.sl) < pip THEN NoneInt
                    ELSE IF /\ position.price_open - curr_price >= trailing_activation * pip
                            /\ (position.sl = NoneInt \/ new_sl < position.sl)
                         THEN new_sl ELSE NoneInt

(* the "sl" of modify_sl's request *)
modify_sl(s, info, new_sl) == RoundPrice(new_sl, get_pip_info(s, info).digits)

(* process_symbol's trailing step: the stop it asks the venue to set for position, NoneInt
   when it asks for none *)
TrailRequest(s, position, info, tick) ==
  LET new_sl == IF position # None /\ trailing_enabled
                THEN update_trailing_stop(s, position, info, tick)
                ELSE NoneInt
  IN  IF new_sl = NoneInt THEN NoneInt ELSE modify_sl(s, info, new_sl)

(* ------------------------------------------------------------------ *)
(* State                                                               *)
(* ------------------------------------------------------------------ *)

VARIABLES
  symbols,           \* self.symbols, in the order the loop visits them
  connected,         \* self.connected: connect() got the account and set the peak balance
  now,               \* datetime.now(), seconds since midnight of day 0
  cooldown_seconds,  \* self.cooldown_seconds, fixed at construction
  positions,         \* the venue: per symbol, the sequence of open positions
  balance,           \* the venue: account.balance
  symbol_data,       \* self.symbol_data
  trades,            \* self.performance.trades
  phase,             \* where run() is: "run", "closing" (the finally block), "done"
  idx,               \* the index in self.symbols of the next symbol of the current loop
  cycle,             \* run()'s local counter of the loop's turns: the turn under way
  ev,                \* what the last step asked of the venue
  call,              \* for a function run on its own: its arguments
  ret                \* and what it returned

vars == <<symbols, connected, now, cooldown_seconds, positions, balance, symbol_data, trades, phase, idx,
          cycle, ev, call, ret>>

(* no function is run on its own *)
NoCall == [fn |-> "none"]

OrderResults == {"DONE", "REJECTED", "NONE"}

(* symbol_data[symbol] as __init__ builds it; last_signal is absent until the first analysis *)
InitSymbolData ==
  [in_position |-> FALSE, position_type |-> NoneStr, lot_size |-> FallbackLot,
   last_structure |-> NoneStr, last_confidence |-> 0, last_signal |-> NoneStr,
   last_trade_time |-> NoneInt]

(* nothing asked of the venue *)
NoEvent ==
  [op |-> "none", symbol |-> NoneStr, breaker |-> NoneStr, seen |-> NoneStr,
   trailing |-> FALSE, stop |-> NoneInt, modify |-> NoneInt, close |-> NoneStr, recheck |-> NoneStr,
   open |-> NoneStr, volume |-> NoneInt, spread |-> NoneInt, signal |-> NoneStr]

(* ------------------------------------------------------------------ *)
(* The venue                                                           *)
(* ------------------------------------------------------------------ *)

(* the venue finds a position by its ticket; here a position stands for its ticket *)
RECURSIVE RemovePosition(_, _)
RemovePosition(seq, position) ==
  IF seq = <<>> THEN <<>>
  ELSE IF Head(seq) = position THEN Tail(seq)
  ELSE <<Head(seq)>> \o RemovePosition(Tail(seq), position)

RECURSIVE SetStop(_, _, _)
SetStop(seq, position, sl) ==
  IF seq = <<>> THEN <<>>
  ELSE IF Head(seq) = position THEN <<[position EXCEPT !.sl = sl]>> \o Tail(seq)
  ELSE <<Head(seq)>> \o SetStop(Tail(seq), position, sl)

(* the inputs the model runs the loop with *)
BasePrice(s) == IF s \in metals THEN 19000000 ELSE 11000
Quotes(s) == IF s \in metals THEN {BasePrice(s), BasePrice(s) + 100}
             ELSE {BasePrice(s), BasePrice(s) + 40}
Atr(s) == IF s \in metals THEN 200 ELSE 20
(* position.profit when a position is closed, and the other changes of the balance
   (deposits, withdrawals) *)
Profits == {0 - 50, 50}
Transfers == {0 - 300, 300}
ProfitsAt(bal) == {p \in Profits : bal + p \in Balances}

(* what analyze_symbol can return for s besides None: price is the last close *)
Analyses(s) ==
  { [signal |-> "HOLD", confidence |-> 0, structure |-> "RANGE", atr |-> Atr(s), price |-> BasePrice(s)],
    [signal |-> "BUY", confidence |-> 7, structure |-> "UPTREND", atr |-> Atr(s), price |-> BasePrice(s)],
    [signal |-> "SELL", confidence |-> 7, structure |-> "DOWNTREND", atr |-> Atr(s), price |-> BasePrice(s)] }

(* ------------------------------------------------------------------ *)
(* Orders                                                              *)
(* ------------------------------------------------------------------ *)

(* open_position as it would be if it stamped last_trade_time on every order it sends *)
open_position_stamps_attempt(st, s, order_type, lot_size, sl_price, info, res, t, cooldown) ==
  IF info = None THEN [st |-> st, out |-> "NO_INFO"]
  ELSE IF ~check_cooldown(st.sd, s, t, cooldown) THEN [st |-> st, out |-> "COOLDOWN"]
  ELSE IF res # "DONE" THEN [st |-> [st EXCEPT !.sd[s].last_trade_time = t], out |-> res]
  ELSE LET price == IF order_type = "buy" THEN info.ask ELSE info.bid
           p == [type |-> order_type, volume |-> lot_size, price_open |-> price,
                 sl |-> RoundPrice(sl_price, get_pip_info(s, info).digits),
                 magic |-> MAGIC]
       IN  [st |-> [st EXCEPT !.pos[s] = Append(@, p),
                              !.sd[s].in_position = TRUE,
                              !.sd[s].position_type = order_type,
                              !.sd[s].lot_size = lot_size,
                              !.sd[s].last_trade_time = t],
            out |-> "DONE"]

(* open_position as it would be if only close_position stamped last_trade_time *)
open_position_without_stamp(st, s, order_type, lot_size, sl_price, info, res, t, cooldown) ==
  IF info = None THEN [st |-> st, out |-> "NO_INFO"]
  ELSE IF ~check_cooldown(st.sd, s, t, cooldown) THEN [st |-> st, out |-> "COOLDOWN"]
  ELSE IF res # "DONE" THEN [st |-> st, out |-> res]
  ELSE LET price == IF order_type = "buy" THEN info.ask ELSE info.bid
           p == [type |-> order_type, volume |-> lot_size, price_open |-> price,
                 sl |-> RoundPrice(sl_price, get_pip_info(s, info).digits),
                 magic |-> MAGIC]
       IN  [st |-> [st EXCEPT !.pos[s] = Append(@, p),
                              !.sd[s].in_position = TRUE,
                              !.sd[s].position_type = order_type,
                              !.sd[s].lot_size = lot_size],
            out |-> "DONE"]

(* st is [pos, bal, sd, tr]: the venue's positions and balance, symbol_data, trades.
   res is what mt5.order_send gives: retcode DONE, another retcode, or no result at all
   (result.retcode then raises).  out: why no order was sent, or the order's result. *)
open_position(st, s, order_type, lot_size, sl_price, info, res, t, cooldown) ==
  IF info = None THEN [st |-> st, out |-> "NO_INFO"]
  ELSE IF ~check_cooldown(st.sd, s, t, cooldown) THEN [st |-> st, out |-> "COOLDOWN"]
  ELSE IF res # "DONE" THEN [st |-> st, out |-> res]
  ELSE LET price == IF order_type = "buy" THEN info.ask ELSE info.bid
           p == [type |-> order_type, volume |-> lot_size, price_open |-> price,
                 sl |-> RoundPrice(sl_price, get_pip_info(s, info).digits),
                 magic |-> MAGIC]
       IN  [st |-> [st EXCEPT !.pos[s] = Append(@, p),
                              !.sd[s].in_position = TRUE,
                              !.sd[s].position_type = order_type,
                              !.sd[s].lot_size = lot_size,
                              !.sd[s].last_trade_time = t],
            out |-> "DONE"]

(* profit is position.profit, which the venue books to the balance when it closes *)
close_position(st, s, position, info, res, profit, t) ==
  IF info = None THEN [st |-> st, out |-> "NO_INFO"]
  ELSE IF res # "DONE" THEN [st |-> st, out |-> res]
  ELSE IF ~connected
  THEN \* add_trade appends the record and then compares the balance with a peak_balance
       \* that is still None: TypeError, before symbol_data is written
       [st |-> [st EXCEPT !.pos[s] = RemovePosition(@, position),
                          !.bal = @ + profit,
                          !.tr = Append(@, [timestamp |-> t, symbol |-> s, profit |-> profit])],
        out |-> "RAISED"]
  ELSE [st |-> [st EXCEPT !.pos[s] = RemovePosition(@, position),
                          !.bal = @ + profit,
                          !.tr = Append(@, [timestamp |-> t, symbol |-> s, profit |-> profit]),
                          !.sd[s].in_position = FALSE,
                          !.sd[s].position_type = NoneStr,
                          !.sd[s].last_trade_time = t],
        out |-> "DONE"]

(* ------------------------------------------------------------------ *)
(* The loop                                                            *)
(* ------------------------------------------------------------------ *)

(* the symbol selections the model runs *)
SymbolLists == {<<"EURUSD">>}

(* the bot after __init__ and a connect() that obtained the account, so that
   performance.peak_balance is set *)
Init ==
  /\ symbols \in SymbolLists
  /\ connected = TRUE
  /\ now = 0
  /\ cooldown_seconds \in CooldownChoices
  /\ positions = [s \in AllSymbols |-> <<>>]
  /\ balance = InitialBalance
  /\ symbol_data = [s \in AllSymbols |-> InitSymbolData]
  /\ trades = <<>>
  /\ phase = "run"
  /\ idx = 1
  /\ cycle = 1
  /\ ev = NoEvent
  /\ call = NoCall
  /\ ret = NoCall

Commit(st, e) ==
  /\ positions' = st.pos
  /\ balance' = st.bal
  /\ symbol_data' = st.sd
  /\ trades' = st.tr
  /\ ev' = e

(* in_position as it would be if process_symbol trusted the flag it keeps in memory *)
memory_in_position(sd, s, position) == sd[s].in_position

(* process_symbol's in_position: whether the venue query gave a position *)
venue_in_position(sd, s, position) == position # None

(* analyze_symbol's spread filter as it would be if it never rejected *)
spread_filter_off(tick, atr) == FALSE

(* analyze_symbol's spread filter: spread > atr * max_spread_multiplier *)
spread_too_wide(tick, atr) == Abs(tick.ask - tick.bid) * 10 > atr * max_spread_multiplier

(* the quotes the venue gives: bid q and the spread above it *)
Tick(q, spread) == [bid |-> q, ask |-> q + spread]
NormalSpread(s) == SymbolInfo(s, BasePrice(s)).ask - BasePrice(s)
NormalSpreads(s) == {NormalSpread(s)}

(* the reversal's re-check as it would be if the close were taken for granted *)
position_closed_unchecked(pos, s) == TRUE

(* the reversal's re-check after the close attempt: self.check_position(symbol) is None *)
position_closed(pos, s) == check_position(pos, s) = None

(* atr * atr_sl_mult with atr_sl_mult = 1.5 *)
SlDistance(atr) == (atr * 3) \div 2

(* the reversal branches as they would be if any entry signal closed the position *)
reversal_on_any_signal(signal, in_position, position) ==
  in_position /\ signal \in {"BUY", "SELL"}

(* the conditions of process_symbol's two reversal branches: a BUY signal while a sell is
   held, or a SELL signal while a buy is held *)
reversal_signal(signal, in_position, position) ==
  \/ (signal = "BUY" /\ in_position /\ position.type = "sell")
  \/ (signal = "SELL" /\ in_position /\ position.type = "buy")

(* The tail of process_symbol, from the sizing on. st and e are the state and the requests
   so far; position is what check_position gave at the start of the call. *)
Decide(st, e, s, position, analysis, info, account, res_close, hit, profit, res_open) ==
  LET in_position == venue_in_position(st.sd, s, position)
      sl_distance == SlDistance(analysis.atr)
      stop_loss_pips == sl_distance \div Pip(s)
      st2 == IF account # None /\ ~in_position
             THEN [st EXCEPT !.sd[s].lot_size =
                     calculate_position_size(s, info, account.balance, analysis.confidence,
                                             stop_loss_pips, DefaultRiskCfg)]
             ELSE st
      lot_size == st2.sd[s].lot_size
      buy_sl == analysis.price - sl_distance
      sell_sl == analysis.price + sl_distance
  IN  IF analysis.signal \in {"BUY", "SELL"} /\ ~in_position
      THEN LET order_type == IF analysis.signal = "BUY" THEN "buy" ELSE "sell"
               o == open_position(st2, s, order_type, lot_size,
                                  IF order_type = "buy" THEN buy_sl ELSE sell_sl,
                                  info, res_open, now, cooldown_seconds)
           IN  Commit(o.st, [e EXCEPT !.open = o.out, !.volume = lot_size])
      ELSE IF reversal_signal(analysis.signal, in_position, position)
      THEN LET order_type == IF analysis.signal = "BUY" THEN "buy" ELSE "sell"
               \* the venue may close the position on its own (stop or target) before the
               \* close order reaches it; the order then fails
               c == IF hit
                    THEN [st |-> [st2 EXCEPT !.pos[s] = RemovePosition(@, position),
                                             !.bal = @ + profit],
                          out |-> IF info = None THEN "NO_INFO" ELSE res_close]
                    ELSE close_position(st2, s, position, info, res_close, profit, now)
               e1 == [e EXCEPT !.close = c.out]
           IN  /\ Len(trades) < MaxTrades
               /\ hit => res_close # "DONE"
               /\ IF c.out \in {"NONE", "RAISED"}
                  THEN Commit(c.st, e1)   \* result.retcode raised: the handler ends
                  ELSE IF ~position_closed(c.st.pos, s)
                  THEN Commit(c.st, [e1 EXCEPT !.recheck = "held"])
                  ELSE LET o == open_position(c.st, s, order_type, c.st.sd[s].lot_size,
                                              IF order_type = "buy" THEN buy_sl ELSE sell_sl,
                                              info, res_open, now, cooldown_seconds)
                       IN  Commit(o.st, [e1 EXCEPT !.recheck = "flat", !.open = o.out,
                                                   !.volume = c.st.sd[s].lot_size])
      ELSE Commit(st2, e)

ModifyResults == {"DONE", "REJECTED"}

(* what mt5.account_info() may give: the account, or nothing; asked is whether the answer
   is used at all *)
Accounts(asked) == IF asked THEN {None, [balance |-> balance]} ELSE {[balance |-> balance]}

(* process_symbol as it would be if a symbol without analysis were recorded as a HOLD *)
record_analysis_as_hold(st, s, analysis) ==
  IF analysis = None
  THEN [st EXCEPT !.sd[s].last_confidence = 0, !.sd[s].last_signal = "HOLD"]
  ELSE [st EXCEPT !.sd[s].last_structure = analysis.structure,
                  !.sd[s].last_confidence = analysis.confidence,
                  !.sd[s].last_signal = analysis.signal]

(* process_symbol returns when analyze_symbol gave None; otherwise it stores the
   structure, the confidence and the signal *)
record_analysis(st, s, analysis) ==
  IF analysis = None THEN st
  ELSE [st EXCEPT !.sd[s].last_structure = analysis.structure,
                  !.sd[s].last_confidence = analysis.confidence,
                  !.sd[s].last_signal = analysis.signal]

(* process_symbol(symbols[idx]); analyses[s] is what analyze_symbol may compute for s and
   spreads[s] the spreads the venue may quote for it *)
ProcessSymbolOn(analyses, spreads) ==
  /\ phase = "run"
  /\ idx <= Len(symbols)
  /\ idx' = idx + 1
  /\ UNCHANGED <<symbols, connected, now, cooldown_seconds, phase, cycle, call, ret>>
  /\ LET s == symbols[idx]
         st0 == [pos |-> positions, bal |-> balance, sd |-> symbol_data, tr |-> trades]
         e0 == [NoEvent EXCEPT !.op = "process_symbol", !.symbol = s]
     IN  \E account \in Accounts(trades # <<>>) :
           IF ~check_daily_loss_limit(trades, now, account)
           THEN Commit(st0, [e0 EXCEPT !.breaker = "tripped"])
           ELSE
             LET position == check_position(positions, s)
                 in_position == venue_in_position(symbol_data, s, position)
             IN  \E answers \in {"all", "no_info", "no_tick"} :
                 \E q \in (IF answers = "all" THEN Quotes(s) ELSE {BasePrice(s)}),
                    spread \in (IF answers = "no_tick" THEN {NormalSpread(s)} ELSE spreads[s]) :
                   LET info == IF answers = "all" THEN SymbolInfo(s, q) ELSE None
                       tick == IF answers # "no_tick" THEN Tick(q, spread) ELSE None
                       trailing == in_position /\ trailing_enabled
                       request == TrailRequest(s, position, info, tick)
                   IN  \E res_modify \in (IF request = NoneInt THEN {"REJECTED"} ELSE ModifyResults) :
                         LET st1 == [st0 EXCEPT
                                       !.sd[s].in_position = in_position,
                                       !.pos[s] = IF request # NoneInt /\ res_modify = "DONE"
                                                  THEN SetStop(@, position, request) ELSE @]
                             e1 == [e0 EXCEPT !.breaker = "ok",
                                              !.seen = IF position # None THEN position.type ELSE NoneStr,
                                              !.trailing = trailing,
                                              !.stop = IF request = NoneInt THEN NoneInt ELSE position.sl,
                                              !.modify = request,
                                              !.spread = IF tick = None THEN NoneInt
                                                         ELSE tick.ask - tick.bid]
                         IN  \E analysis \in (IF tick = None \/ spread_too_wide(tick, Atr(s))
                                              THEN {None} ELSE analyses[s] \cup {None}) :
                               IF analysis = None
                               THEN Commit(record_analysis(st1, s, analysis),
                                           [e1 EXCEPT !.signal = "UNAVAILABLE"])
                               ELSE
                                 LET st2 == record_analysis(st1, s, analysis)
                                     reversal == reversal_signal(analysis.signal, in_position,
                                                                 position)
                                     entry == /\ info # None
                                              /\ analysis.signal \in {"BUY", "SELL"}
                                              /\ (~in_position \/ reversal)
                                 IN  \E account2 \in Accounts(~in_position),
                                        res_close \in (IF reversal THEN OrderResults ELSE {"NONE"}),
                                        hit \in (IF reversal THEN BOOLEAN ELSE {FALSE}),
                                        res_open \in (IF entry THEN OrderResults ELSE {"NONE"}) :
                                     \E profit \in (IF reversal /\ (hit \/ res_close = "DONE")
                                                    THEN ProfitsAt(balance) ELSE {0}) :
                                       Decide(st2, [e1 EXCEPT !.signal = analysis.signal], s,
                                              position, analysis, info, account2,
                                              res_close, hit, profit, res_open)

ProcessSymbol ==
  ProcessSymbolOn([s \in AllSymbols |-> Analyses(s)], [s \in AllSymbols |-> NormalSpreads(s)])

(* print_status: returns at once without the account; formatting last_structure with a
   width raises TypeError while it is still None *)
print_status(sd, syms, account) ==
  IF account = None THEN "skipped"
  ELSE IF \E i \in 1..Len(syms) : sd[syms[i]].last_structure = NoneStr THEN "raised"
  ELSE "printed"

(* The end of a turn of run()'s loop: the status in every StatusEvery-th turn, then the
   sleep, after which the clock reads next_now.  An exception of print_status is caught
   outside the loop: run() goes to its finally block. *)
EndOfCycle(next_now) ==
  /\ phase = "run"
  /\ idx = Len(symbols) + 1
  /\ idx' = 1
  /\ \E account \in Accounts(cycle % StatusEvery = 0) :
       IF cycle % StatusEvery = 0 /\ print_status(symbol_data, symbols, account) = "raised"
       THEN /\ phase' = "closing"
            /\ now' = now
            /\ cycle' = cycle
            /\ ev' = [NoEvent EXCEPT !.op = "status_error"]
       ELSE /\ phase' = phase
            /\ now' = next_now
            /\ cycle' = cycle + 1
            /\ ev' = [NoEvent EXCEPT !.op = "sleep"]
  /\ UNCHANGED <<symbols, connected, cooldown_seconds, positions, balance, symbol_data, trades, call, ret>>

(* the readings of the clock after t *)
ClockAfter(t) ==
  IF t % SecondsPerDay = 0 THEN {t + ShortStep}
  ELSE IF DateOf(t) < MaxDays THEN {(DateOf(t) + 1) * SecondsPerDay}
  ELSE {}

(* time.sleep(check_interval), and the time the venue calls took: the clock moves on *)
Sleep == \E next_now \in ClockAfter(now) : EndOfCycle(next_now)

(* the venue closes a position at its stop or its target and books the result *)
VenueClose ==
  /\ phase \in {"run", "closing"}
  /\ \E s \in AllSymbols, p \in ProfitsAt(balance) :
       /\ positions[s] # <<>>
       /\ positions' = [positions EXCEPT ![s] = Tail(@)]
       /\ balance' = balance + p
       /\ ev' = [NoEvent EXCEPT !.op = "venue_close", !.symbol = s]
  /\ UNCHANGED <<symbols, connected, now, cooldown_seconds, symbol_data, trades, phase, idx, cycle, call, ret>>

(* a deposit or a withdrawal *)
Transfer ==
  /\ phase = "run"
  /\ \E a \in Transfers :
       /\ balance + a \in Balances
       /\ balance' = balance + a
  /\ ev' = [NoEvent EXCEPT !.op = "transfer"]
  /\ UNCHANGED <<symbols, connected, now, cooldown_seconds, positions, symbol_data, trades, phase, idx, cycle, call, ret>>

OpenSymbols(pos) == {s \in AllSymbols : check_position(pos, s) # None}

(* KeyboardInterrupt: run() goes to its finally block *)
Interrupt ==
  /\ phase = "run"
  /\ Len(trades) + Cardinality(OpenSymbols(positions)) <= MaxTrades
  /\ phase' = "closing"
  /\ idx' = 1
  /\ ev' = [NoEvent EXCEPT !.op = "interrupt"]
  /\ UNCHANGED <<symbols, connected, now, cooldown_seconds, positions, balance, symbol_data, trades, cycle,
                 call, ret>>

(* one turn of the finally block's loop over self.symbols *)
FinallyClose ==
  /\ phase = "closing"
  /\ idx <= Len(symbols)
  /\ UNCHANGED <<symbols, connected, now, cooldown_seconds, cycle, call, ret>>
  /\ LET s == symbols[idx]
         st0 == [pos |-> positions, bal |-> balance, sd |-> symbol_data, tr |-> trades]
         position == check_position(positions, s)
         e0 == [NoEvent EXCEPT !.op = "finally", !.symbol = s,
                              !.seen = IF position = None THEN NoneStr ELSE position.type]
     IN  IF position = None
         THEN /\ Commit(st0, e0)
              /\ idx' = idx + 1
              /\ phase' = phase
         ELSE \E info_ok \in BOOLEAN, res \in OrderResults, profit \in ProfitsAt(balance) :
                LET info == IF info_ok THEN SymbolInfo(s, position.price_open) ELSE None
                    c == close_position(st0, s, position, info, res, profit, now)
                IN  /\ Commit(c.st, [e0 EXCEPT !.close = c.out])
                    /\ IF c.out \in {"NONE", "RAISED"}
                       THEN phase' = "done" /\ idx' = idx   \* the exception leaves run()
                       ELSE phase' = phase /\ idx' = idx + 1

(* mt5.shutdown(), the summary, and run() returns *)
Finish ==
  /\ phase = "closing"
  /\ idx = Len(symbols) + 1
  /\ phase' = "done"
  /\ ev' = [NoEvent EXCEPT !.op = "finish"]
  /\ UNCHANGED <<symbols, connected, now, cooldown_seconds, positions, balance, symbol_data, trades, idx,
                 cycle, call, ret>>

Next == ProcessSymbol \/ Sleep \/ VenueClose \/ Transfer \/ Interrupt \/ FinallyClose \/ Finish

Spec == Init /\ [][Next]_vars

(* ------------------------------------------------------------------ *)
(* The loop over two symbols in a market that gives no entry           *)
(* ------------------------------------------------------------------ *)

(* the turns of the loop that end with a sleep *)
MaxCycles == 5
(* settings.check_interval, in seconds *)
check_interval == 300

(* a ranging market: analyze_symbol gives HOLD, or None when candles or quote are missing *)
QuietAnalyses(s) ==
  { [signal |-> "HOLD", confidence |-> 0, structure |-> "RANGE", atr |-> Atr(s),
     price |-> BasePrice(s)] }

LoopInit ==
  /\ symbols = <<"EURUSD", "XAUUSD">>
  /\ connected = TRUE
  /\ now = 0
  /\ cooldown_seconds \in CooldownChoices
  /\ positions = [s \in AllSymbols |-> <<>>]
  /\ balance = InitialBalance
  /\ symbol_data = [s \in AllSymbols |-> InitSymbolData]
  /\ trades = <<>>
  /\ phase = "run"
  /\ idx = 1
  /\ cycle = 1
  /\ ev = NoEvent
  /\ call = NoCall
  /\ ret = NoCall

LoopProcessSymbol ==
  ProcessSymbolOn([s \in AllSymbols |-> QuietAnalyses(s)],
                  [s \in AllSymbols |-> NormalSpreads(s)])

(* the status if it is due, then time.sleep(check_interval) *)
LoopSleep ==
  /\ cycle <= MaxCycles
  /\ EndOfCycle(now + check_interval)

LoopNext == LoopProcessSymbol \/ LoopSleep \/ Interrupt \/ FinallyClose \/ Finish

LoopSpec == LoopInit /\ [][LoopNext]_vars

(* ------------------------------------------------------------------ *)
(* The life of one position under the trailing stop                    *)
(* ------------------------------------------------------------------ *)

(* the quotes of a price path: up to MaxTicksAway steps of TickStep pips either side of
   the price the position was opened at *)
MaxTicksAway == 8
TickStep(s) == IF s \in metals THEN 100 ELSE 5
TrailQuotes(s) == {BasePrice(s) + k * TickStep(s) : k \in (0 - MaxTicksAway)..MaxTicksAway}

(* the position open_position leaves at the venue for a signal at BasePrice(s) *)
OpenedPosition(s, order_type) ==
  LET sl_distance == SlDistance(Atr(s))
      sl_price == IF order_type = "buy" THEN BasePrice(s) - sl_distance ELSE BasePrice(s) + sl_distance
  IN  [type |-> order_type, volume |-> FallbackLot, price_open |-> BasePrice(s),
       sl |-> RoundPrice(sl_price, SymbolInfo(s, BasePrice(s)).digits), magic |-> MAGIC]

TrailInit ==
  /\ symbols \in {<<"EURUSD">>, <<"XAUUSD">>}
  /\ connected = TRUE
  /\ now = 0
  /\ cooldown_seconds = 300
  /\ \E order_type \in {"buy", "sell"} :
       /\ positions = [s \in AllSymbols |->
                         IF s = symbols[1] THEN <<OpenedPosition(s, order_type)>> ELSE <<>>]
       /\ symbol_data = [s \in AllSymbols |->
                           IF s = symbols[1]
                           THEN [InitSymbolData EXCEPT !.in_position = TRUE,
                                                       !.position_type = order_type,
                                                       !.last_trade_time = 0]
                           ELSE InitSymbolData]
  /\ balance = InitialBalance
  /\ trades = <<>>
  /\ phase = "run"
  /\ idx = 1
  /\ cycle = 1
  /\ ev = NoEvent
  /\ call = NoCall
  /\ ret = NoCall

(* a turn of the loop in which analyze_symbol gives nothing: process_symbol checks the
   breaker, finds the position, runs update_trailing_stop and returns; then the sleep *)
TrailCycle ==
  /\ phase = "run"
  /\ check_daily_loss_limit(trades, now, [balance |-> balance])
  /\ LET s == symbols[1]
         position == check_position(positions, s)
     IN  /\ position # None
         /\ \E q \in TrailQuotes(s), res_modify \in ModifyResults :
              LET info == SymbolInfo(s, q)
                  tick == SymbolInfoTick(s, q)
                  request == TrailRequest(s, position, info, tick)
              IN  /\ positions' = [positions EXCEPT
                                     ![s] = IF request # NoneInt /\ res_modify = "DONE"
                                            THEN SetStop(@, position, request) ELSE @]
                  /\ ev' = [NoEvent EXCEPT !.op = "process_symbol", !.symbol = s,
                                           !.breaker = "ok", !.seen = position.type,
                                           !.trailing = trailing_enabled,
                                           !.stop = IF request = NoneInt THEN NoneInt ELSE position.sl,
                                           !.modify = request,
                                           !.spread = tick.ask - tick.bid]
  /\ UNCHANGED <<symbols, connected, now, cooldown_seconds, balance, symbol_data, trades, phase, idx, cycle, call, ret>>

TrailNext == TrailCycle \/ VenueClose

TrailSpec == TrailInit /\ [][TrailNext]_vars

(* ------------------------------------------------------------------ *)
(* The end of run(): cancellation with positions open                  *)
(* ------------------------------------------------------------------ *)

(* what the bot holds per symbol when the cancellation comes *)
Holdings == [AllSymbols -> {"none", "buy", "sell"}]

ShutdownInit ==
  /\ symbols \in {<<"EURUSD", "XAUUSD">>, <<"XAUUSD", "EURUSD">>}
  /\ connected = TRUE
  /\ now = 0
  /\ cooldown_seconds = 300
  /\ \E held \in Holdings :
       /\ positions = [s \in AllSymbols |->
                         IF held[s] = "none" THEN <<>> ELSE <<OpenedPosition(s, held[s])>>]
       /\ symbol_data = [s \in AllSymbols |->
                           IF held[s] = "none" THEN InitSymbolData
                           ELSE [InitSymbolData EXCEPT !.in_position = TRUE,
                                                       !.position_type = held[s],
                                                       !.last_trade_time = 0]]
  /\ balance = InitialBalance
  /\ trades = <<>>
  /\ phase = "run"
  /\ idx = 1
  /\ cycle = 1
  /\ ev = NoEvent
  /\ call = NoCall
  /\ ret = NoCall

ShutdownNext == Interrupt \/ FinallyClose \/ Finish \/ VenueClose

ShutdownSpec == ShutdownInit /\ [][ShutdownNext]_vars

(* ------------------------------------------------------------------ *)
(* The first cycles after a restart                                    *)
(* ------------------------------------------------------------------ *)

(* the turns of the loop after the restart *)
RestartCycles == 2

(* the spreads the venue may quote: the usual one, max_spread_multiplier * ATR, ATR *)
AllSpreads(s) == {NormalSpread(s), (Atr(s) * max_spread_multiplier) \div 10, Atr(s)}

(* a new process: symbol_data as __init__ builds it, whatever the venue still holds from
   the process before *)
RestartInit ==
  /\ symbols \in {<<"EURUSD">>, <<"XAUUSD">>}
  /\ connected \in BOOLEAN
  /\ now = 0
  /\ cooldown_seconds \in CooldownChoices
  /\ \E held \in {"none", "buy", "sell"} :
       positions = [s \in AllSymbols |->
                      IF s = symbols[1] /\ held # "none" THEN <<OpenedPosition(s, held)>>
                      ELSE <<>>]
  /\ symbol_data = [s \in AllSymbols |-> InitSymbolData]
  /\ balance = InitialBalance
  /\ trades = <<>>
  /\ phase = "run"
  /\ idx = 1
  /\ cycle = 1
  /\ ev = NoEvent
  /\ call = NoCall
  /\ ret = NoCall

RestartProcessSymbol ==
  ProcessSymbolOn([s \in AllSymbols |-> Analyses(s)], [s \in AllSymbols |-> AllSpreads(s)])

RestartSleep ==
  /\ cycle < RestartCycles
  /\ EndOfCycle(now + check_interval)

RestartNext == RestartProcessSymbol \/ RestartSleep \/ VenueClose

RestartSpec == RestartInit /\ [][RestartNext]_vars

(* ------------------------------------------------------------------ *)
(* One turn of the loop over two symbols, in the middle of a run       *)
(* ------------------------------------------------------------------ *)

(* symbol_data[s] one turn after the bot opened a position on a signal, and before any *)
HeldSymbolData(held) ==
  IF held = "none" THEN InitSymbolData
  ELSE [InitSymbolData EXCEPT !.in_position = TRUE,
                              !.position_type = held,
                              !.last_structure = IF held = "buy" THEN "UPTREND" ELSE "DOWNTREND",
                              !.last_confidence = 7,
                              !.last_signal = IF held = "buy" THEN "BUY" ELSE "SELL",
                              !.last_trade_time = 0]

PairInit ==
  /\ symbols \in {<<"EURUSD", "XAUUSD">>, <<"XAUUSD", "EURUSD">>}
  /\ connected = TRUE
  /\ now = check_interval
  /\ cooldown_seconds \in CooldownChoices
  /\ \E held \in Holdings :
       /\ positions = [s \in AllSymbols |->
                         IF held[s] = "none" THEN <<>> ELSE <<OpenedPosition(s, held[s])>>]
       /\ symbol_data = [s \in AllSymbols |-> HeldSymbolData(held[s])]
  /\ balance = InitialBalance
  /\ trades = <<>>
  /\ phase = "run"
  /\ idx = 1
  /\ cycle = 2
  /\ ev = NoEvent
  /\ call = NoCall
  /\ ret = NoCall

PairNext == ProcessSymbol \/ Interrupt \/ FinallyClose \/ Finish

PairSpec == PairInit /\ [][PairNext]_vars

(* ------------------------------------------------------------------ *)
(* The gates and the sizing, each run on its own                       *)
(* ------------------------------------------------------------------ *)

(* the time since the symbol's last trade: up to MaxElapsedDays whole days plus an offset
   around the cooldown *)
MaxElapsedDays == 2
ElapsedOffsets == {0, 10, 299, 300, 301, 3600}
Elapsed == {d * SecondsPerDay + r : d \in 0..MaxElapsedDays, r \in ElapsedOffsets}
Cooldowns == {0, 60, 300}

(* what the venue may report as (volume_min, volume_max, volume_step), in hundredths of a lot *)
VenueLots == {<<1, 10000, 1>>, <<10, 1000, 10>>, <<1, 50, 1>>, <<100, 5000, 100>>}
SizingBalances == {100, 1000, 100000}
Confidences == {0, 5, 7, 10}
StopDistances == {0, 30, 300}

CooldownCalls ==
  [fn : {"check_cooldown"}, symbol : {"EURUSD"}, last_trade_time : {0, 100}, elapsed : Elapsed,
   cooldown : Cooldowns]

SizingCalls ==
  [fn : {"calculate_position_size"}, symbol : AllSymbols, balance : SizingBalances,
   confidence : Confidences, stop_loss_pips : StopDistances, lots : VenueLots]

(* settings['risk_percent'] as get_trading_settings_from_terminal returns it, in thousandths
   of a percent: the default 1.0 or an entry between 0.1 and 5.0 *)
TerminalRisks == {100, 500, 1000, 3000, 5000}
AllConfidences == 0..10

RiskCalls ==
  [fn : {"calculate_risk_percent"}, symbol : AllSymbols, confidence : AllConfidences,
   risk_percent : TerminalRisks, confidence_scaling : BOOLEAN]

(* the stop of the position when update_trailing_stop runs, as a distance from the current
   price on the losing side: around trailing_distance, and far away *)
StopDistancesFromPrice ==
  ((trailing_distance - 3)..(trailing_distance + 3)) \cup {1, 2 * trailing_activation}
TrailingCallsOf(s) ==
  { [fn |-> "update_trailing_stop", symbol |-> s, answers |-> a,
     tick |-> SymbolInfoTick(s, q),
     position |-> [OpenedPosition(s, t) EXCEPT
                     !.sl = IF t = "buy" THEN SymbolInfoTick(s, q).bid - d
                            ELSE SymbolInfoTick(s, q).ask + d]] :
      a \in {"all", "no_info", "no_tick"}, t \in {"buy", "sell"},
      q \in TrailQuotes(s), d \in StopDistancesFromPrice }
TrailingCalls == UNION {TrailingCallsOf(s) : s \in AllSymbols}

CallInit ==
  /\ call \in CooldownCalls \cup SizingCalls \cup TrailingCalls \cup RiskCalls
  /\ ret = NoCall
  /\ symbols = <<call.symbol>>
  /\ connected = TRUE
  /\ now = IF call.fn = "check_cooldown" THEN call.last_trade_time + call.elapsed ELSE 0
  /\ cooldown_seconds = IF call.fn = "check_cooldown" THEN call.cooldown ELSE 300
  /\ positions = [s \in AllSymbols |-> <<>>]
  /\ balance = IF call.fn = "calculate_position_size" THEN call.balance ELSE InitialBalance
  /\ symbol_data = [s \in AllSymbols |->
                      IF call.fn = "check_cooldown" /\ s = call.symbol
                      THEN [InitSymbolData EXCEPT !.last_trade_time = call.last_trade_time]
                      ELSE InitSymbolData]
  /\ trades = <<>>
  /\ phase = "run"
  /\ idx = 1
  /\ cycle = 1
  /\ ev = NoEvent

CallCheckCooldown ==
  /\ call.fn = "check_cooldown"
  /\ ret = NoCall
  /\ ret' = [fn |-> call.fn,
             value |-> check_cooldown(symbol_data, call.symbol, now, cooldown_seconds)]
  /\ UNCHANGED <<symbols, connected, now, cooldown_seconds, positions, balance, symbol_data, trades, phase,
                 idx, cycle, ev, call>>

CallCalculatePositionSize ==
  /\ call.fn = "calculate_position_size"
  /\ ret = NoCall
  /\ LET info == [SymbolInfo(call.symbol, BasePrice(call.symbol)) EXCEPT
                    !.volume_min = call.lots[1], !.volume_max = call.lots[2],
                    !.volume_step = call.lots[3]]
     IN  ret' = [fn |-> call.fn,
                 value |-> calculate_position_size(call.symbol, info, balance, call.confidence,
                                                   call.stop_loss_pips, DefaultRiskCfg)]
  /\ UNCHANGED <<symbols, connected, now, cooldown_seconds, positions, balance, symbol_data, trades, phase,
                 idx, cycle, ev, call>>

CallUpdateTrailingStop ==
  /\ call.fn = "update_trailing_stop"
  /\ ret = NoCall
  /\ LET info == IF call.answers = "no_info" THEN None
                 ELSE SymbolInfo(call.symbol, call.tick.bid)
         tick == IF call.answers = "no_tick" THEN None ELSE call.tick
     IN  ret' = [fn |-> call.fn,
                 value |-> update_trailing_stop(call.symbol, call.position, info, tick)]
  /\ UNCHANGED <<symbols, connected, now, cooldown_seconds, positions, balance, symbol_data, trades, phase,
                 idx, cycle, ev, call>>

CallCalculateRiskPercent ==
  /\ call.fn = "calculate_risk_percent"
  /\ ret = NoCall
  /\ ret' = [fn |-> call.fn,
             value |-> calculate_risk_percent(call.symbol, call.confidence,
                                              [terminal_risk |-> call.risk_percent,
                                               confidence_scaling |-> call.confidence_scaling])]
  /\ UNCHANGED <<symbols, connected, now, cooldown_seconds, positions, balance, symbol_data, trades, phase,
                 idx, cycle, ev, call>>

CallNext ==
  \/ CallCheckCooldown
  \/ CallCalculatePositionSize
  \/ CallUpdateTrailingStop
  \/ CallCalculateRiskPercent

CallSpec == CallInit /\ [][CallNext]_vars

(* ------------------------------------------------------------------ *)
(* analyze_symbol's detectors and its scoring, each run on its own     *)
(* ------------------------------------------------------------------ *)

(* strategy.adx_minimum *)
adx_minimum == 25

(* the score of the branch that matches the structure, before the cap: the additions in
   the order the code makes them.  m holds what the detectors and indicators gave. *)
accumulated_confidence(m) ==
  IF m.structure = "UPTREND"
  THEN 2 + (IF m.sweep = "BULLISH_SWEEP" THEN 2 ELSE 0)
         + (IF m.bos = "BOS_UP" THEN 2 ELSE 0)
         + (IF m.displacement = "BULLISH_DISPLACEMENT" THEN 3 ELSE 0)
         + (IF m.adx > adx_minimum /\ m.plus_di > m.minus_di THEN 2 ELSE 0)
         + (IF m.sma_short > m.sma_long THEN 1 ELSE 0)
         + (IF m.good_session THEN 1 ELSE 0)
  ELSE IF m.structure = "DOWNTREND"
  THEN 2 + (IF m.sweep = "BEARISH_SWEEP" THEN 2 ELSE 0)
         + (IF m.bos = "BOS_DOWN" THEN 2 ELSE 0)
         + (IF m.displacement = "BEARISH_DISPLACEMENT" THEN 3 ELSE 0)
         + (IF m.adx > adx_minimum /\ m.minus_di > m.plus_di THEN 2 ELSE 0)
         + (IF m.sma_short < m.sma_long THEN 1 ELSE 0)
         + (IF m.good_session THEN 1 ELSE 0)
  ELSE 0

(* the gates as they would be if nothing were required *)
meets_nothing_required(m, cfg) == TRUE

(* meets_requirements of the branch that matches the structure *)
meets_requirements(m, cfg) ==
  IF m.structure = "UPTREND"
  THEN /\ ~(cfg.require_bos /\ m.bos # "BOS_UP")
       /\ ~(cfg.require_displacement /\ m.displacement # "BULLISH_DISPLACEMENT")
  ELSE /\ ~(cfg.require_bos /\ m.bos # "BOS_DOWN")
       /\ ~(cfg.require_displacement /\ m.displacement # "BEARISH_DISPLACEMENT")

(* the confidence as it would be returned without the cap *)
confidence_uncapped(confidence) == confidence

(* FIX 6: confidence = min(confidence, 10) *)
cap_confidence(confidence) == Min(confidence, 10)

(* what analyze_symbol returns once the candles, the quote and the spread passed *)
analyze_symbol(m, cfg) ==
  LET confidence == accumulated_confidence(m)
      signal == IF m.structure = "UPTREND"
                THEN (IF meets_requirements(m, cfg) /\ confidence >= cfg.min_confidence
                      THEN "BUY" ELSE "HOLD")
                ELSE IF m.structure = "DOWNTREND"
                THEN (IF meets_requirements(m, cfg) /\ confidence >= cfg.min_confidence
                      THEN "SELL" ELSE "HOLD")
                ELSE "HOLD"
  IN  [signal |-> signal, confidence |-> cap_confidence(confidence), structure |-> m.structure]

(* what the detectors can give together: a sweep or a break only in the direction of the
   structure, none in a range *)
Structures == {"UPTREND", "DOWNTREND", "RANGE"}
SweepsIn(structure) ==
  {"NO_SWEEP"} \cup (IF structure = "UPTREND" THEN {"BULLISH_SWEEP"}
                     ELSE IF structure = "DOWNTREND" THEN {"BEARISH_SWEEP"} ELSE {})
BreaksIn(structure) ==
  {"NO_BOS"} \cup (IF structure = "UPTREND" THEN {"BOS_UP"}
                   ELSE IF structure = "DOWNTREND" THEN {"BOS_DOWN"} ELSE {})
Displacements == {"NO_DISPLACEMENT", "BULLISH_DISPLACEMENT", "BEARISH_DISPLACEMENT"}
AdxValues == {adx_minimum - 5, adx_minimum, adx_minimum + 5}
DiValues == {<<30, 20>>, <<20, 30>>, <<20, 20>>}
SmaValues == {<<11, 10>>, <<10, 11>>, <<10, 10>>}
Measurements ==
  { [structure |-> st, sweep |-> sw, bos |-> b, displacement |-> d, adx |-> a,
     plus_di |-> di[1], minus_di |-> di[2], sma_short |-> sma[1], sma_long |-> sma[2],
     good_session |-> gs] :
      st \in Structures, sw \in {"NO_SWEEP", "BULLISH_SWEEP", "BEARISH_SWEEP"},
      b \in {"NO_BOS", "BOS_UP", "BOS_DOWN"}, d \in Displacements, a \in AdxValues,
      di \in DiValues, sma \in SmaValues, gs \in BOOLEAN }
ScoringConfigs ==
  [require_bos : BOOLEAN, require_displacement : BOOLEAN,
   min_confidence : {min_confidence, min_confidence + 4, min_confidence + 7}]

ScoringCalls ==
  { [fn |-> "analyze_symbol", symbol |-> "EURUSD", m |-> m, cfg |-> cfg] :
      m \in {x \in Measurements : x.sweep \in SweepsIn(x.structure)
                                  /\ x.bos \in BreaksIn(x.structure)},
      cfg \in ScoringConfigs }

(* smc_settings.sweep_sensitivity = 0.001, in thousandths *)
sweep_sensitivity == 1
(* analyze_symbol goes on only with at least this many candles *)
MinBars == 100

SetMin(S) == CHOOSE x \in S : \A y \in S : x <= y
SetMax(S) == CHOOSE x \in S : \A y \in S : x >= y

(* df[column].iloc[-n:-1]: the n - 1 bars before the last one *)
BarsBeforeLast(df, n) == (Len(df) - n + 1)..(Len(df) - 1)

(* detect_liquidity_sweep(df, structure): df is the sequence of candles, the last one the
   current bar; prices are whole points *)
detect_liquidity_sweep(df, structure) ==
  LET current_price == df[Len(df)].close
      current_low == df[Len(df)].low
      current_high == df[Len(df)].high
      lookback == Min(20, Len(df) - 5)
      recent_lows == SetMin({df[i].low : i \in BarsBeforeLast(df, lookback)})
      recent_highs == SetMax({df[i].high : i \in BarsBeforeLast(df, lookback)})
  IN  IF /\ structure = "UPTREND"
         /\ current_low * 1000 < recent_lows * (1000 - sweep_sensitivity)
         /\ current_price > recent_lows
      THEN [sweep_type |-> "BULLISH_SWEEP", sweep_level |-> recent_lows]
      ELSE IF /\ structure = "DOWNTREND"
              /\ current_high * 1000 > recent_highs * (1000 + sweep_sensitivity)
              /\ current_price < recent_highs
      THEN [sweep_type |-> "BEARISH_SWEEP", sweep_level |-> recent_highs]
      ELSE [sweep_type |-> "NO_SWEEP", sweep_level |-> NoneInt]

(* the candle windows of the sweep calls: MinBars bars between BaseLow and BaseHigh, one
   bar up to MaxBarsBack bars before the current one reaching out by Reach on both sides,
   and the current bar *)
MaxBarsBack == 22
BaseLow == 1000
BaseHigh == 1100
Reach == 10
CurrentLows == {BaseLow - 20, BaseLow - 11, BaseLow - 5, BaseLow}
CurrentHighs == {BaseHigh + 20, BaseHigh + 11, BaseHigh + 5, BaseHigh}
CurrentCloses == {BaseLow - 5, BaseLow + 5, BaseHigh - 5, BaseHigh + 5}
SweepWindow(back, reach, current) ==
  [i \in 1..MinBars |->
     IF i = MinBars THEN current
     ELSE IF i = MinBars - back
     THEN [low |-> BaseLow - reach, high |-> BaseHigh + reach, close |-> BaseLow + 50]
     ELSE [low |-> BaseLow, high |-> BaseHigh, close |-> BaseLow + 50]]
SweepCalls ==
  { [fn |-> "detect_liquidity_sweep", symbol |-> "EURUSD", structure |-> st,
     df |-> SweepWindow(back, reach, [low |-> lo, high |-> hi, close |-> c])] :
      st \in Structures, back \in 1..MaxBarsBack, reach \in {0, Reach},
      lo \in CurrentLows, hi \in CurrentHighs,
      c \in {x \in CurrentCloses : x >= BaseLow - 20 /\ x <= BaseHigh + 20} }

(* detect_swing_points' default strength *)
strength == 3

(* highs[i] >= highs[i-k] and highs[i] >= highs[i+k] for k = 1..strength; i counts from 1 *)
IsSwingHigh(df, i) ==
  \A k \in 1..strength : df[i].high >= df[i - k].high /\ df[i].high >= df[i + k].high
IsSwingLow(df, i) ==
  \A k \in 1..strength : df[i].low <= df[i - k].low /\ df[i].low <= df[i + k].low

(* the bars range(strength, len(df) - strength) visits, in order *)
InnerBars(df) == [j \in 1..Max(Len(df) - 2 * strength, 0) |-> j + strength]

RECURSIVE SwingList(_, _, _)
(* the list of (i, value) the loop appends to, i counted from 0 as the code does *)
SwingList(df, bars, column) ==
  IF bars = <<>> THEN <<>>
  ELSE <<[i |-> Head(bars) - 1,
          value |-> IF column = "high" THEN df[Head(bars)].high ELSE df[Head(bars)].low]>>
         \o SwingList(df, Tail(bars), column)

(* detect_swing_points(df, strength=3) *)
detect_swing_points(df) ==
  [swing_highs |-> SwingList(df, SelectSeq(InnerBars(df), LAMBDA i : IsSwingHigh(df, i)), "high"),
   swing_lows |-> SwingList(df, SelectSeq(InnerBars(df), LAMBDA i : IsSwingLow(df, i)), "low")]

(* detect_market_structure as it would be if it looked at the swing highs alone *)
detect_market_structure_by_highs(df) ==
  LET swing_highs == detect_swing_points(df).swing_highs
      n == Len(swing_highs)
  IN  IF n >= 2 /\ swing_highs[n].value > swing_highs[n - 1].value
      THEN [structure |-> "UPTREND", last_swing_high |-> swing_highs[n].value,
            last_swing_low |-> NoneInt]
      ELSE IF n >= 2 /\ swing_highs[n].value < swing_highs[n - 1].value
      THEN [structure |-> "DOWNTREND", last_swing_high |-> swing_highs[n].value,
            last_swing_low |-> NoneInt]
      ELSE [structure |-> "RANGE", last_swing_high |-> NoneInt, last_swing_low |-> NoneInt]

(* detect_market_structure(df): the last elements of swing_highs[-3:] and swing_lows[-3:]
   are the last elements of the lists *)
detect_market_structure(df) ==
  LET swing_highs == detect_swing_points(df).swing_highs
      swing_lows == detect_swing_points(df).swing_lows
      last_3_highs == SubSeq(swing_highs, Max(Len(swing_highs) - 2, 1), Len(swing_highs))
      last_3_lows == SubSeq(swing_lows, Max(Len(swing_lows) - 2, 1), Len(swing_lows))
      nh == Len(last_3_highs)
      nl == Len(last_3_lows)
  IN  IF nh >= 2 /\ nl >= 2
      THEN IF /\ last_3_highs[nh].value > last_3_highs[nh - 1].value
              /\ last_3_lows[nl].value > last_3_lows[nl - 1].value
           THEN [structure |-> "UPTREND", last_swing_high |-> last_3_highs[nh].value,
                 last_swing_low |-> last_3_lows[nl].value]
           ELSE IF /\ last_3_highs[nh].value < last_3_highs[nh - 1].value
                   /\ last_3_lows[nl].value < last_3_lows[nl - 1].value
           THEN [structure |-> "DOWNTREND", last_swing_high |-> last_3_highs[nh].value,
                 last_swing_low |-> last_3_lows[nl].value]
           ELSE [structure |-> "RANGE", last_swing_high |-> NoneInt, last_swing_low |-> NoneInt]
      ELSE [structure |-> "RANGE", last_swing_high |-> NoneInt, last_swing_low |-> NoneInt]

(* the candle windows of the swing calls: MinBars bars whose highs and lows rise by a point
   a bar, with a wick up or down at each of up to MaxTurns bars that lie TurnGap bars
   apart; the wicks reach one of the heights WickLevels *)
MaxTurns == 5
TurnGap == 5
WickLevels == {1, 2}
RampLow == 1000
RampHigh == 2000
Turns == {[kind |-> "none", level |-> 0]}
           \cup [kind : {"peak", "trough"}, level : WickLevels]
TurnAt(i) == IF i % TurnGap = 0 /\ i \div TurnGap \in 2..(MaxTurns + 1) THEN i \div TurnGap - 1
             ELSE 0
SwingWindow(turns) ==
  [i \in 1..MinBars |->
     LET t == IF TurnAt(i) = 0 THEN [kind |-> "none", level |-> 0] ELSE turns[TurnAt(i)]
     IN  [high |-> IF t.kind = "peak" THEN RampHigh + 1000 * t.level ELSE RampHigh + i,
          low |-> IF t.kind = "trough" THEN RampLow - 100 * t.level ELSE RampLow + i]]
SwingWindows == {SwingWindow(turns) : turns \in [1..MaxTurns -> Turns]}
StructureCalls ==
  [fn : {"detect_market_structure"}, symbol : {"EURUSD"}, df : SwingWindows]
SwingCalls ==
  [fn : {"detect_swing_points"}, symbol : {"EURUSD"}, df : SwingWindows]

AnalysisCalls == ScoringCalls \cup SweepCalls \cup StructureCalls \cup SwingCalls

AnalysisInit ==
  /\ call \in AnalysisCalls
  /\ ret = NoCall
  /\ symbols = <<call.symbol>>
  /\ connected = TRUE
  /\ now = 0
  /\ cooldown_seconds = 300
  /\ positions = [s \in AllSymbols |-> <<>>]
  /\ balance = InitialBalance
  /\ symbol_data = [s \in AllSymbols |-> InitSymbolData]
  /\ trades = <<>>
  /\ phase = "run"
  /\ idx = 1
  /\ cycle = 1
  /\ ev = NoEvent

CallAnalyzeSymbol ==
  /\ call.fn = "analyze_symbol"
  /\ ret = NoCall
  /\ ret' = [fn |-> call.fn, value |-> analyze_symbol(call.m, call.cfg)]
  /\ UNCHANGED <<symbols, connected, now, cooldown_seconds, positions, balance, symbol_data, trades, phase,
                 idx, cycle, ev, call>>

CallDetectLiquiditySweep ==
  /\ call.fn = "detect_liquidity_sweep"
  /\ ret = NoCall
  /\ ret' = [fn |-> call.fn, value |-> detect_liquidity_sweep(call.df, call.structure)]
  /\ UNCHANGED <<symbols, connected, now, cooldown_seconds, positions, balance, symbol_data, trades, phase,
                 idx, cycle, ev, call>>

CallDetectMarketStructure ==
  /\ call.fn = "detect_market_structure"
  /\ ret = NoCall
  /\ ret' = [fn |-> call.fn, value |-> detect_market_structure(call.df)]
  /\ UNCHANGED <<symbols, connected, now, cooldown_seconds, positions, balance, symbol_data, trades, phase,
                 idx, cycle, ev, call>>

CallDetectSwingPoints ==
  /\ call.fn = "detect_swing_points"
  /\ ret = NoCall
  /\ ret' = [fn |-> call.fn, value |-> detect_swing_points(call.df)]
  /\ UNCHANGED <<symbols, connected, now, cooldown_seconds, positions, balance, symbol_data, trades, phase,
                 idx, cycle, ev, call>>

AnalysisNext ==
  \/ CallAnalyzeSymbol
  \/ CallDetectLiquiditySweep
  \/ CallDetectMarketStructure
  \/ CallDetectSwingPoints

AnalysisSpec == AnalysisInit /\ [][AnalysisNext]_vars

(* ------------------------------------------------------------------ *)
(* Properties                                                          *)
(* ------------------------------------------------------------------ *)

(* the venue's open positions of s that carry the bot's magic number *)
BotPositions(s) == SelectSeq(positions[s], LAMBDA p : p.magic = MAGIC)

(* the last step was a process_symbol call that sent an order opening a position *)
EntrySent == ev.op = "process_symbol" /\ ev.open \in OrderResults

(* today's realized loss exceeds daily_loss_limit percent of the estimated start-of-day
   balance, as check_daily_loss_limit computes it from the state *)
Tripped == ~check_daily_loss_limit(trades, now, [balance |-> balance])

(* C1: the venue holds at most one open position tagged with the bot's magic number per
   symbol, and process_symbol sends an entry order only when check_position reported no
   such position (at the start of the call, or after a reversal's close attempt). *)
C1_OnePositionPerSymbol ==
  /\ \A s \in AllSymbols : Len(BotPositions(s)) <= 1
  /\ EntrySent => (ev.seen = NoneStr \/ ev.recheck = "flat")

(* a signal in the direction of the position already held: no order is sent *)
C1_Witness ==
  /\ ev.op = "process_symbol"
  /\ ev.seen = "buy"
  /\ symbol_data[ev.symbol].last_signal = "BUY"
  /\ ev.open = NoneStr
  /\ Len(BotPositions(ev.symbol)) = 1

(* C2: in a reversal whose close order is accepted and after which the venue reports no
   position, process_symbol sends the order opening the opposite side in the same call. *)
C2_ReversalOpensOppositeSide ==
  (ev.op = "process_symbol" /\ ev.close = "DONE" /\ ev.recheck = "flat") => ev.open \in OrderResults

(* C3: while the daily-loss breaker is tripped, process_symbol still runs
   update_trailing_stop for a symbol that has an open position. *)
C3_TrailingWhileTripped ==
  (ev.op = "process_symbol" /\ ev.breaker = "tripped" /\ BotPositions(ev.symbol) # <<>>)
    => ev.trailing

C5_CooldownElapsedPermits ==
  (ret # NoCall /\ ret.fn = "check_cooldown" /\ call.elapsed >= call.cooldown) => ret.value = TRUE

(* C6: every stop the trailing step requests is at least the position's current stop for
   a buy position and at most the current stop for a sell position. *)
C6_TrailingNeverLoosens ==
  (ev.op = "process_symbol" /\ ev.modify # NoneInt) =>
    /\ ev.seen = "buy" => ev.modify >= ev.stop
    /\ ev.seen = "sell" => ev.modify <= ev.stop

(* a stop that was already trailed above the opening price is raised again *)
C6_Witness ==
  /\ ev.op = "process_symbol"
  /\ ev.seen = "buy"
  /\ ev.stop > BasePrice(ev.symbol)
  /\ ev.modify > ev.stop

(* C7: no order opening a position is sent in a call in which today's realized loss
   exceeds daily_loss_limit percent of the estimated start-of-day balance. *)
C7_NoEntryWhenLossExceeds ==
  EntrySent => ~LossExceeds(TodayPL(trades, now), balance)

(* C8: once the breaker is tripped it stays tripped while the day lasts, whatever happens
   to the balance. *)
C8_BreakerStaysTripped ==
  [][(Tripped /\ DateOf(now') = DateOf(now)) => Tripped']_vars

(* C9 as claimed: in a reversal, if the close order is rejected or the venue still reports
   the position after the close attempt, no order opening the opposite side is sent. *)
C9_NoOpenAfterRejectedClose ==
  (ev.op = "process_symbol" /\ (ev.close = "REJECTED" \/ ev.recheck = "held"))
    => ev.open \notin OrderResults

(* C9: in a reversal, if the venue still reports the bot's position after the close
   attempt, no order opening the opposite side is sent: when one is sent, the position that
   was to be closed is gone from the venue. *)
C9_NoOpenWhilePositionHeld ==
  (ev.op = "process_symbol" /\ ev.close # NoneStr) =>
    /\ ev.recheck = "held" => ev.open = NoneStr
    /\ ev.open \in OrderResults =>
         Len(BotPositions(ev.symbol)) = IF ev.open = "DONE" THEN 1 ELSE 0

(* the close order is rejected and the position is still there: nothing is opened *)
C9_Witness ==
  /\ ev.op = "process_symbol"
  /\ ev.close = "REJECTED"
  /\ ev.recheck = "held"
  /\ ev.open = NoneStr
  /\ BotPositions(ev.symbol) # <<>>

(* C10: the lot calculate_position_size returns lies between the venue's minimum and
   maximum lot and is a multiple of its lot step; with a stop distance of zero it is the
   minimum lot. *)
C10_LotWithinVenueLimits ==
  (ret # NoCall /\ ret.fn = "calculate_position_size") =>
    /\ call.lots[1] <= ret.value
    /\ ret.value <= call.lots[2]
    /\ ret.value % call.lots[3] = 0
    /\ call.stop_loss_pips = 0 => ret.value = call.lots[1]

(* the seven conditions of the scoring, each with its weight, and those of them that match
   the direction dir ("UP" or "DOWN") in the measurements m *)
Weights ==
  [structure |-> 2, sweep |-> 2, bos |-> 2, displacement |-> 3, trend |-> 2, ma |-> 1,
   session |-> 1]
Matching(m, dir) ==
  {c \in DOMAIN Weights :
     CASE c = "structure" -> m.structure = (IF dir = "UP" THEN "UPTREND" ELSE "DOWNTREND")
       [] c = "sweep" -> m.sweep = (IF dir = "UP" THEN "BULLISH_SWEEP" ELSE "BEARISH_SWEEP")
       [] c = "bos" -> m.bos = (IF dir = "UP" THEN "BOS_UP" ELSE "BOS_DOWN")
       [] c = "displacement" -> m.displacement = (IF dir = "UP" THEN "BULLISH_DISPLACEMENT"
                                                  ELSE "BEARISH_DISPLACEMENT")
       [] c = "trend" -> /\ m.adx > adx_minimum
                         /\ IF dir = "UP" THEN m.plus_di > m.minus_di
                            ELSE m.minus_di > m.plus_di
       [] c = "ma" -> IF dir = "UP" THEN m.sma_short > m.sma_long
                      ELSE m.sma_short < m.sma_long
       [] c = "session" -> m.good_session}
RECURSIVE WeightOf(_)
WeightOf(cs) == IF cs = {} THEN 0
                ELSE LET c == CHOOSE x \in cs : TRUE IN Weights[c] + WeightOf(cs \ {c})
(* the conditions that match the direction of the structure: none in a range *)
MatchingStructure(m) ==
  IF m.structure = "UPTREND" THEN Matching(m, "UP")
  ELSE IF m.structure = "DOWNTREND" THEN Matching(m, "DOWN")
  ELSE {}

(* C11: the confidence analyze_symbol returns is min(10, sum of the weights 2/2/2/3/2/1/1 of
   the conditions that match the direction of the structure); it lies in 0..10 and is 10
   when all seven match. *)
C11_ConfidenceIsCappedWeightSum ==
  ret.fn = "analyze_symbol" =>
    /\ ret.value.confidence = Min(10, WeightOf(MatchingStructure(call.m)))
    /\ ret.value.confidence \in 0..10
    /\ MatchingStructure(call.m) = DOMAIN Weights => ret.value.confidence = 10

(* all seven bullish conditions match: the sum of 13 is returned as 10 *)
C11_Witness ==
  /\ ret.fn = "analyze_symbol"
  /\ Matching(call.m, "UP") = DOMAIN Weights
  /\ ret.value.confidence = 10

(* C12: analyze_symbol returns BUY exactly when the structure is UPTREND, every gate that
   is configured as required is satisfied (require_bos: BOS_UP, require_displacement:
   BULLISH_DISPLACEMENT) and the accumulated score reaches min_confidence; SELL exactly
   under the mirrored DOWNTREND conditions; HOLD otherwise. *)
C12_SignalExactlyWhenGatesAndScore ==
  ret.fn = "analyze_symbol" =>
    LET m == call.m
        cfg == call.cfg
        buy == /\ m.structure = "UPTREND"
               /\ cfg.require_bos => m.bos = "BOS_UP"
               /\ cfg.require_displacement => m.displacement = "BULLISH_DISPLACEMENT"
               /\ WeightOf(Matching(m, "UP")) >= cfg.min_confidence
        sell == /\ m.structure = "DOWNTREND"
                /\ cfg.require_bos => m.bos = "BOS_DOWN"
                /\ cfg.require_displacement => m.displacement = "BEARISH_DISPLACEMENT"
                /\ WeightOf(Matching(m, "DOWN")) >= cfg.min_confidence
    IN  /\ ret.value.signal = "BUY" <=> buy
        /\ ret.value.signal = "SELL" <=> sell
        /\ ret.value.signal = "HOLD" <=> (~buy /\ ~sell)

(* an uptrend whose score reaches min_confidence but whose required break is missing: HOLD *)
C12_Witness ==
  /\ ret.fn = "analyze_symbol"
  /\ call.m.structure = "UPTREND"
  /\ call.cfg.require_bos
  /\ call.m.bos = "NO_BOS"
  /\ WeightOf(Matching(call.m, "UP")) >= call.cfg.min_confidence
  /\ ret.value.signal = "HOLD"

(* C13: a process_symbol call whose open order or close order the venue rejects (and in
   which no other order is accepted) leaves the symbol's position_type and last_trade_time and the trade
   history as they were, with in_position as the venue reported it, so the cooldown answers
   the next attempt as it would have answered this one. *)
C13_RejectedOrderLeavesState ==
  [][(/\ ev'.op = "process_symbol"
      /\ \/ ev'.open = "REJECTED" /\ ev'.close # "DONE"
         \/ ev'.close = "REJECTED" /\ ev'.open # "DONE")
     => LET s == ev'.symbol
        IN  /\ symbol_data'[s].position_type = symbol_data[s].position_type
            /\ symbol_data'[s].last_trade_time = symbol_data[s].last_trade_time
            /\ symbol_data'[s].in_position = (ev'.seen # NoneStr)
            /\ trades' = trades
            /\ check_cooldown(symbol_data', s, now, cooldown_seconds)
                 = check_cooldown(symbol_data, s, now, cooldown_seconds)]_vars

(* an entry order rejected after an earlier trade of the symbol, the cooldown over *)
C13_Witness ==
  /\ ev.op = "process_symbol"
  /\ ev.open = "REJECTED"
  /\ ev.seen = NoneStr
  /\ trades # <<>>
  /\ symbol_data[ev.symbol].last_trade_time # NoneInt
  /\ symbol_data[ev.symbol].last_trade_time # now

(* C14: no error ends the control loop: run() leaves its loop only on the external
   cancellation (stated for the model: every step that takes run() out of the loop is the
   interrupt). *)
C14_LoopEndsOnlyOnCancellation ==
  [][(phase = "run" /\ phase' # "run") => ev'.op = "interrupt"]_vars

(* C15: after the cancellation run() makes a close attempt for every symbol that holds a
   position of the bot, whatever became of the attempts for the other symbols: once run()
   has ended, no symbol that the closing loop did not reach holds a position. *)
C15_EveryOpenPositionAttempted ==
  phase = "done" => \A i \in (idx + 1)..Len(symbols) : BotPositions(symbols[i]) = <<>>

(* C16: process_symbol decides on what the venue reports, not on the in_position it kept:
   after a call that got past the breaker the flag is what the venue query gave (or what
   an accepted order made of it), and an order opening a position is sent only when the
   venue reported none for the symbol, at the start of the call or after a reversal's
   close. *)
C16_InPositionFromVenue ==
  (ev.op = "process_symbol" /\ ev.breaker = "ok") =>
    /\ symbol_data[ev.symbol].in_position =
         (IF ev.open = "DONE" THEN TRUE
          ELSE IF ev.close = "DONE" THEN FALSE
          ELSE ev.seen # NoneStr)
    /\ ev.open \in OrderResults => (ev.seen = NoneStr \/ ev.recheck = "flat")

(* the first cycle after a restart: the memory says flat, the venue holds a buy, the
   signal is BUY, and nothing is sent *)
C16_Witness ==
  /\ ev.op = "process_symbol"
  /\ cycle = 1
  /\ ev.seen = "buy"
  /\ symbol_data[ev.symbol].last_signal = "BUY"
  /\ symbol_data[ev.symbol].position_type = NoneStr
  /\ symbol_data[ev.symbol].in_position
  /\ ev.open = NoneStr

(* C20: in a cycle in which the quoted spread exceeds max_spread_multiplier times the ATR,
   process_symbol sends no order that opens and none that closes a position of the
   symbol, and records no signal for it. *)
C20_WideSpreadNoOrder ==
  (/\ ev.op = "process_symbol"
   /\ ev.spread # NoneInt
   /\ ev.spread * 10 > Atr(ev.symbol) * max_spread_multiplier)
  => /\ ev.open = NoneStr
     /\ ev.close = NoneStr
     /\ ev.recheck = NoneStr

(* a position held and the spread at the ATR: the cycle passes without an order *)
C20_Witness ==
  /\ ev.op = "process_symbol"
  /\ ev.spread = Atr(ev.symbol)
  /\ ev.seen = "sell"
  /\ Len(BotPositions(ev.symbol)) = 1
  /\ ev.open = NoneStr
  /\ ev.close = NoneStr

(* the lowest low of the n bars before the current one *)
LowestOfPrior(df, n) == SetMin({df[i].low : i \in (Len(df) - n)..(Len(df) - 1)})

(* C17: in an UPTREND, when the current bar's low is below the minimum low of the prior 20
   bars by more than sweep_sensitivity and the current close is above that minimum,
   detect_liquidity_sweep returns BULLISH_SWEEP with that minimum as the level. *)
C17_BullishSweepOnPrior20Minimum ==
  (ret.fn = "detect_liquidity_sweep" /\ call.structure = "UPTREND") =>
    LET current == call.df[Len(call.df)]
        low20 == LowestOfPrior(call.df, 20)
    IN  (/\ current.low * 1000 < low20 * (1000 - sweep_sensitivity)
         /\ current.close > low20)
        => ret.value = [sweep_type |-> "BULLISH_SWEEP", sweep_level |-> low20]

(* the values of a list of swing points, and whether they rise or fall all along *)
SwingValues(swings) == [j \in 1..Len(swings) |-> swings[j].value]
Rising(values) == \A j \in 1..(Len(values) - 1) : values[j] < values[j + 1]
Falling(values) == \A j \in 1..(Len(values) - 1) : values[j] > values[j + 1]

(* C18 as stated: UPTREND when the detected swing highs and the swing lows both rise
   monotonically, DOWNTREND when both fall monotonically, RANGE when the sequences are
   mixed or there are fewer than two swing highs or two swing lows. *)
C18_StructureByMonotoneSequences ==
  ret.fn = "detect_market_structure" =>
    LET highs == SwingValues(detect_swing_points(call.df).swing_highs)
        lows == SwingValues(detect_swing_points(call.df).swing_lows)
    IN  ret.value.structure =
          (IF Len(highs) < 2 \/ Len(lows) < 2 THEN "RANGE"
           ELSE IF Rising(highs) /\ Rising(lows) THEN "UPTREND"
           ELSE IF Falling(highs) /\ Falling(lows) THEN "DOWNTREND"
           ELSE "RANGE")

(* C18 amended: with at least two swing highs and two swing lows, UPTREND when the latest
   swing high and the latest swing low are both strictly above the ones before them,
   DOWNTREND when both are strictly below; RANGE otherwise and with fewer swings. *)
C18_StructureByLastTwoSwings ==
  ret.fn = "detect_market_structure" =>
    LET highs == SwingValues(detect_swing_points(call.df).swing_highs)
        lows == SwingValues(detect_swing_points(call.df).swing_lows)
        h == Len(highs)
        l == Len(lows)
        up == h >= 2 /\ l >= 2 /\ highs[h] > highs[h - 1] /\ lows[l] > lows[l - 1]
        down == h >= 2 /\ l >= 2 /\ highs[h] < highs[h - 1] /\ lows[l] < lows[l - 1]
    IN  /\ ret.value.structure = "UPTREND" <=> up
        /\ ret.value.structure = "DOWNTREND" <=> down
        /\ ret.value.structure = "RANGE" <=> (~up /\ ~down)

(* three swing highs that fall and then rise, two rising swing lows: UPTREND *)
C18_Witness ==
  /\ ret.fn = "detect_market_structure"
  /\ ret.value.structure = "UPTREND"
  /\ LET highs == SwingValues(detect_swing_points(call.df).swing_highs)
     IN  Len(highs) = 3 /\ highs[1] > highs[2] /\ highs[2] < highs[3]

(* C19: the swing points detect_swing_points returns alternate in time: between two swing
   highs that follow each other in the list there is a swing low, and between two swing
   lows that follow each other there is a swing high. *)
C19_SwingPointsAlternate ==
  ret.fn = "detect_swing_points" =>
    LET highs == ret.value.swing_highs
        lows == ret.value.swing_lows
    IN  /\ \A j \in 1..(Len(highs) - 1) :
             \E k \in 1..Len(lows) : highs[j].i <= lows[k].i /\ lows[k].i <= highs[j + 1].i
        /\ \A j \in 1..(Len(lows) - 1) :
             \E k \in 1..Len(highs) : lows[j].i <= highs[k].i /\ highs[k].i <= lows[j + 1].i

(* the unrealized profit of the call's position at the call's quote, the candidate stop
   (current price minus the trail distance for a buy, plus for a sell) and by how much the
   candidate improves the position's stop, all in price units *)
TrailPrice == IF call.position.type = "buy" THEN call.tick.bid ELSE call.tick.ask
TrailProfit ==
  IF call.position.type = "buy" THEN TrailPrice - call.position.price_open
  ELSE call.position.price_open - TrailPrice
TrailCandidate ==
  IF call.position.type = "buy" THEN TrailPrice - trailing_distance * Pip(call.symbol)
  ELSE TrailPrice + trailing_distance * Pip(call.symbol)
TrailImprovement ==
  IF call.position.type = "buy" THEN TrailCandidate - call.position.sl
  ELSE call.position.sl - TrailCandidate

(* C21: with trailing enabled and the venue answering both queries, update_trailing_stop
   asks for a new stop exactly when the unrealized profit is at least trailing_activation
   pips and the candidate stop improves the existing stop by at least one pip; the stop it
   asks for is the candidate. *)
C21_TrailingRequestExactlyWhenDue ==
  (ret.fn = "update_trailing_stop" /\ call.answers = "all") =>
    /\ ret.value # NoneInt <=>
         (/\ TrailProfit >= trailing_activation * Pip(call.symbol)
          /\ TrailImprovement >= Pip(call.symbol))
    /\ ret.value # NoneInt => ret.value = TrailCandidate

(* enough profit, and a candidate that is better than the stop by less than a pip or not
   at all: no request *)
C21_Witness ==
  /\ ret.fn = "update_trailing_stop"
  /\ call.answers = "all"
  /\ call.position.type = "sell"
  /\ TrailProfit >= trailing_activation * Pip(call.symbol)
  /\ TrailImprovement = 0
  /\ ret.value = NoneInt

(* what the sizing rule gives for symbol s in a cycle with account balance bal and an
   analysis of confidence conf: the stop distance comes from the ATR *)
SizedLot(s, bal, conf) ==
  calculate_position_size(s, SymbolInfo(s, BasePrice(s)), bal, conf,
                          SlDistance(Atr(s)) \div Pip(s), DefaultRiskCfg)

(* C22: the volume of the position a reversal opens is what calculate_position_size gives
   in that cycle for the account balance (as it is before or after the close), the
   confidence of the cycle's analysis and the ATR-derived stop distance. *)
C22_ReversalVolumeIsSized ==
  [][(/\ ev'.op = "process_symbol"
      /\ ev'.close # NoneStr
      /\ ev'.open = "DONE")
     => LET s == ev'.symbol
            conf == symbol_data'[s].last_confidence
        IN  ev'.volume \in {SizedLot(s, balance, conf), SizedLot(s, balance', conf)}]_vars

(* C23: every close order the venue accepts (the close ends as DONE, or as RAISED when the
   bookkeeping after the accepted order fails) appends exactly one record to the trade
   history, leaves the symbol flat unless the same call opens the opposite side, and stamps
   last_trade_time with the time of the close; and no step ever edits or drops a record. *)
C23_AcceptedCloseIsRecorded ==
  [][/\ Len(trades') >= Len(trades)
     /\ SubSeq(trades', 1, Len(trades)) = trades
     /\ (ev'.op \in {"process_symbol", "finally"} /\ ev'.close \in {"DONE", "RAISED"})
        => LET s == ev'.symbol
           IN  /\ Len(trades') = Len(trades) + 1
               /\ trades'[Len(trades')].symbol = s
               /\ symbol_data'[s].last_trade_time = now
               /\ ev'.open # "DONE" => /\ ~symbol_data'[s].in_position
                                       /\ symbol_data'[s].position_type = NoneStr]_vars

(* the configured base risk of the symbol's instrument class *)
ClassBaseRisk(s) ==
  IF get_symbol_type(s) \in {"metal", "crypto"} THEN metal_risk ELSE currency_risk

(* C24: for every symbol and every confidence in 0..10, calculate_risk_percent returns
   min(base * (confidence/10 if confidence_scaling else 1), max_risk_per_trade) with base
   the configured base risk of the symbol's instrument class, and never more than
   max_risk_per_trade. *)
C24_RiskPercentFromClassBase ==
  ret.fn = "calculate_risk_percent" =>
    /\ ret.value = Min((ClassBaseRisk(call.symbol)
                          * (IF call.confidence_scaling THEN call.confidence ELSE 10)) \div 10,
                       max_risk)
    /\ ret.value <= max_risk

(* C25: when analyze_symbol has nothing for a symbol (no candles, no quote), the call
   sends no open and no close order for it and leaves its last_signal, last_confidence,
   last_structure, lot_size and last_trade_time as they were; it touches nothing of the
   other symbols and the loop goes on to the next symbol. *)
C25_UnavailableSymbolIsSkipped ==
  [][(ev'.op = "process_symbol" /\ ev'.signal = "UNAVAILABLE")
     => LET s == ev'.symbol
        IN  /\ ev'.open = NoneStr
            /\ ev'.close = NoneStr
            /\ symbol_data'[s].last_signal = symbol_data[s].last_signal
            /\ symbol_data'[s].last_confidence = symbol_data[s].last_confidence
            /\ symbol_data'[s].last_structure = symbol_data[s].last_structure
            /\ symbol_data'[s].lot_size = symbol_data[s].lot_size
            /\ symbol_data'[s].last_trade_time = symbol_data[s].last_trade_time
            /\ trades' = trades
            /\ \A t \in AllSymbols \ {s} : /\ symbol_data'[t] = symbol_data[t]
                                           /\ positions'[t] = positions[t]
            /\ phase' = "run"
            /\ idx' = idx + 1]_vars

(* the second symbol of a cycle is skipped while it holds a position and remembers a
   signal, after the first symbol of the same cycle was analysed *)
C25_Witness ==
  /\ ev.op = "process_symbol"
  /\ ev.signal = "UNAVAILABLE"
  /\ Len(symbols) = 2
  /\ ev.symbol = symbols[2]
  /\ symbol_data[ev.symbol].last_signal \in {"BUY", "SELL"}
  /\ symbol_data[ev.symbol].in_position
  /\ symbol_data[symbols[1]].last_signal = "HOLD"

(* the signal in the direction of a position of the given type *)
SignalOf(position_type) == IF position_type = "buy" THEN "BUY" ELSE "SELL"

(* C26: while the venue holds a position on the symbol, a call of process_symbol whose
   signal is HOLD or points the same way as the position sends no open and no close order
   and leaves the history alone; and a close order is only ever sent by a call whose signal
   points against the position it found, or by the finally block of run(). *)
C26_CloseOnlyOnOppositeOrShutdown ==
  [][/\ (/\ ev'.op = "process_symbol"
         /\ ev'.seen # NoneStr
         /\ ev'.signal \in {"HOLD", SignalOf(ev'.seen)})
        => /\ ev'.open = NoneStr
           /\ ev'.close = NoneStr
           /\ trades' = trades
           /\ Len(positions'[ev'.symbol]) = Len(positions[ev'.symbol])
     /\ ev'.close # NoneStr
        => \/ ev'.op = "finally"
           \/ /\ ev'.op = "process_symbol"
              /\ ev'.seen # NoneStr
              /\ ev'.signal \in {"BUY", "SELL"} \ {SignalOf(ev'.seen)}]_vars

(* a sell is held and the analysis says SELL with the cooldown long over: nothing is sent *)
C26_Witness ==
  /\ ev.op = "process_symbol"
  /\ ev.seen = "sell"
  /\ ev.signal = "SELL"
  /\ ev.open = NoneStr
  /\ ev.close = NoneStr
  /\ check_cooldown(symbol_data, ev.symbol, now, cooldown_seconds)

(* C27: for every configured min_confidence, an analysis that returns BUY or SELL reports a
   confidence (the capped one) of at least min_confidence. *)
C27_SignalConfidenceReachesMinimum ==
  (ret.fn = "analyze_symbol" /\ ret.value.signal \in {"BUY", "SELL"})
    => ret.value.confidence >= call.cfg.min_confidence

(* C28: an accepted entry stamps the symbol's last_trade_time with the time of the entry;
   the stamp is never cleared or moved back, whatever the venue does to the position; and
   an entry order is sent only when no stamp exists or at least cooldown_seconds have
   passed since it.  So no entry order follows an accepted entry of the same symbol within
   cooldown_seconds. *)
C28_NoEntryInsideCooldownOfEntry ==
  [][\A s \in AllSymbols :
       /\ (ev'.op = "process_symbol" /\ ev'.symbol = s /\ ev'.open = "DONE")
          => symbol_data'[s].last_trade_time = now
       /\ symbol_data[s].last_trade_time # NoneInt
          => symbol_data'[s].last_trade_time >= symbol_data[s].last_trade_time
       /\ (ev'.op = "process_symbol" /\ ev'.symbol = s /\ ev'.open \in OrderResults)
          => \/ symbol_data[s].last_trade_time = NoneInt
             \/ now - symbol_data[s].last_trade_time >= cooldown_seconds]_vars

(* the bot never closed a position, the venue closed the one it had opened, and the next
   signal comes inside the cooldown of that entry: no order *)
C28_Witness ==
  /\ ev.op = "process_symbol"
  /\ ev.seen = NoneStr
  /\ ev.open = "COOLDOWN"
  /\ trades = <<>>
  /\ symbol_data[ev.symbol].last_trade_time # NoneInt
  /\ symbol_data[ev.symbol].last_trade_time < now
  /\ now - symbol_data[ev.symbol].last_trade_time < cooldown_seconds


====
